---- MODULE Spec2Model ----
(***************************************************************************)
(* Model of the collider signaling server (package collider): the room     *)
(* table, the store operations addClientToRoom, removeClientFromRoom and   *)
(* saveMessageFromClient, and the HTTP handlers built on them.  Spec runs   *)
(* the handlers one request at a time; SpecConc runs them in concurrent    *)
(* goroutines, one statement at a time, over a heap of room and client     *)
(* objects; SpecWs runs websocket sessions through wsHandler, one loop     *)
(* iteration at a time.  Functions are updated with :> and @@.             *)
(***************************************************************************)
EXTENDS Integers, Sequences, FiniteSets, TLC

\* ---------------------------------------------------------------- constants
RESPONSE_ERROR == "ERROR"
RESPONSE_ROOM_FULL == "FULL"
RESPONSE_UNKNOWN_ROOM == "UNKNOWN_ROOM"
RESPONSE_UNKNOWN_CLIENT == "UNKNOWN_CLIENT"
RESPONSE_DUPLICATE_CLIENT == "DUPLICATE_CLIENT"
RESPONSE_SUCCESS == "SUCCESS"
LOOPBACK_CLIENT_ID == "LOOPBACK_CLIENT_ID"

\* the nil error
NoErr == "nil"

\* ------------------------------------------------------------------- bounds
\* longest pending buffer the model lets a client accumulate
MaxMsgs == 2

\* ------------------------------------------------------------------- inputs
\* room identifiers taken from the request path
RoomIds == {"R1"}
\* identifiers generateRandom(8, runesDigital) can return
RandomIds == {"00000001", "00000002", "00000003"}
\* client identifiers a request path can carry
ClientIds == RandomIds \cup {LOOPBACK_CLIENT_ID}
\* request bodies; "" is the empty body
Bodies == {"", "offer", "candidate"}
\* number of segments strings.Split(r.URL.Path, "/") yields
JoinParts == {3, 4}
MessageParts == {3, 4}

\* the nil pointer
nil == 0

\* the goroutines serving requests concurrently
Goroutines == {"g1", "g2"}

\* rooms: the room table seen between requests; last: the latest request.
\* For requests served concurrently the store is a heap of room and client
\* objects reached by pointer: table maps a room id to a room object,
\* roomObjs[i] maps a client id to a client object, clientObjs[i] is a
\* client; goroutine[g] is the position and the locals of the handler run by
\* g, and store0 the store the goroutines started from.
\* For websocket sessions ws is the session served by wsHandler (its locals
\* and what its latest loop iteration did) and conn the (room, client) pairs
\* that hold a live connection.
VARIABLES rooms, last, table, roomObjs, clientObjs, goroutine, store0,
          ws, conn

seqVars == <<rooms, last>>
concVars == <<table, roomObjs, clientObjs, goroutine, store0>>
wsVars == <<ws, conn>>
vars == <<rooms, last, table, roomObjs, clientObjs, goroutine, store0,
          ws, conn>>

\* ------------------------------------------------------------ room and client
\* newClient: a client with an empty pending buffer; the role flag is true
\* for the first member of a room
newClient(first) == [is_initiator |-> first, msgs |-> <<>>]

\* the empty clients map of a new room
newRoom == [c \in {} |-> newClient(FALSE)]

\* roomTable.room: the room of that id, created empty when absent
room(rt, room_id) ==
    IF room_id \in DOMAIN rt THEN rt
    ELSE [r \in DOMAIN rt \cup {room_id} |->
             IF r = room_id THEN newRoom ELSE rt[r]]

\* room.client: the client of that id, created when absent and the room is
\* below its capacity of 2
client(rm, client_id) ==
    IF client_id \in DOMAIN rm THEN rm
    ELSE IF Cardinality(DOMAIN rm) >= 2 THEN rm
    ELSE [c \in DOMAIN rm \cup {client_id} |->
             IF c = client_id THEN newClient(DOMAIN rm = {}) ELSE rm[c]]

\* room.remove: drops the client of that id
remove(rm, client_id) == [c \in DOMAIN rm \ {client_id} |-> rm[c]]

\* room.other_client: the identifiers of the members other than client_id
\* (the call fails when there is none)
other_client(rm, client_id) == DOMAIN rm \ {client_id}

\* client.enqueue: appends to the pending buffer
enqueue(cl, message) == [cl EXCEPT !.msgs = Append(@, message)]

\* delete(c.roomTable.rooms, room_id)
deleteRoom(rt, room_id) == [r \in DOMAIN rt \ {room_id} |-> rt[r]]

\* ------------------------------------------------------------ store operations
\* addClientToRoom with the buffer of the other client left as it was
addClientToRoom_noDrain(rt, room_id, client_id, is_loopback) ==
    LET rt1 == room(rt, room_id)
        rm == rt1[room_id]
        occupancy == Cardinality(DOMAIN rm)
    IN  IF occupancy >= 2
        THEN [rooms |-> rt1, is_initiator |-> FALSE, messages |-> <<>>,
              err |-> RESPONSE_ROOM_FULL]
        ELSE IF client_id \in DOMAIN rm
        THEN [rooms |-> rt1, is_initiator |-> FALSE, messages |-> <<>>,
              err |-> RESPONSE_DUPLICATE_CLIENT]
        ELSE IF occupancy = 0
        THEN LET rm1 == client(rm, client_id)
                 rm2 == IF is_loopback THEN client(rm1, LOOPBACK_CLIENT_ID)
                        ELSE rm1
             IN  [rooms |-> (room_id :> rm2) @@ rt1,
                  is_initiator |-> TRUE, messages |-> <<>>, err |-> NoErr]
        ELSE LET other == CHOOSE o \in other_client(rm, client_id) : TRUE
                 messages == rm[other].msgs
                 rm1 == client(rm, client_id)
             IN  [rooms |-> (room_id :> rm1) @@ rt1,
                  is_initiator |-> FALSE, messages |-> messages,
                  err |-> NoErr]

\* addClientToRoom with the capacity test off by one (occupancy > 2)
addClientToRoom_offByOne(rt, room_id, client_id, is_loopback) ==
    LET rt1 == room(rt, room_id)
        rm == rt1[room_id]
        occupancy == Cardinality(DOMAIN rm)
    IN  IF occupancy > 2
        THEN [rooms |-> rt1, is_initiator |-> FALSE, messages |-> <<>>,
              err |-> RESPONSE_ROOM_FULL]
        ELSE IF client_id \in DOMAIN rm
        THEN [rooms |-> rt1, is_initiator |-> FALSE, messages |-> <<>>,
              err |-> RESPONSE_DUPLICATE_CLIENT]
        ELSE IF occupancy = 0
        THEN LET rm1 == client(rm, client_id)
                 rm2 == IF is_loopback THEN client(rm1, LOOPBACK_CLIENT_ID)
                        ELSE rm1
             IN  [rooms |-> (room_id :> rm2) @@ rt1,
                  is_initiator |-> TRUE, messages |-> <<>>, err |-> NoErr]
        ELSE LET other == CHOOSE o \in other_client(rm, client_id) : TRUE
                 messages == rm[other].msgs
                 rm1 == client(rm, client_id)
                 rm2 == (other :> [rm1[other] EXCEPT !.msgs = <<>>]) @@ rm1
             IN  [rooms |-> (room_id :> rm2) @@ rt1,
                  is_initiator |-> FALSE, messages |-> messages,
                  err |-> NoErr]

\* addClientToRoom with the duplicate test made before the capacity test
addClientToRoom_dupFirst(rt, room_id, client_id, is_loopback) ==
    LET rt1 == room(rt, room_id)
        rm == rt1[room_id]
        occupancy == Cardinality(DOMAIN rm)
    IN  IF client_id \in DOMAIN rm
        THEN [rooms |-> rt1, is_initiator |-> FALSE, messages |-> <<>>,
              err |-> RESPONSE_DUPLICATE_CLIENT]
        ELSE IF occupancy >= 2
        THEN [rooms |-> rt1, is_initiator |-> FALSE, messages |-> <<>>,
              err |-> RESPONSE_ROOM_FULL]
        ELSE IF occupancy = 0
        THEN LET rm1 == client(rm, client_id)
                 rm2 == IF is_loopback THEN client(rm1, LOOPBACK_CLIENT_ID)
                        ELSE rm1
             IN  [rooms |-> (room_id :> rm2) @@ rt1,
                  is_initiator |-> TRUE, messages |-> <<>>, err |-> NoErr]
        ELSE LET other == CHOOSE o \in other_client(rm, client_id) : TRUE
                 messages == rm[other].msgs
                 rm1 == client(rm, client_id)
                 rm2 == (other :> [rm1[other] EXCEPT !.msgs = <<>>]) @@ rm1
             IN  [rooms |-> (room_id :> rm2) @@ rt1,
                  is_initiator |-> FALSE, messages |-> messages,
                  err |-> NoErr]

\* addClientToRoom answering is_initiator = true to the second member too
addClientToRoom_secondInitiator(rt, room_id, client_id, is_loopback) ==
    LET rt1 == room(rt, room_id)
        rm == rt1[room_id]
        occupancy == Cardinality(DOMAIN rm)
    IN  IF occupancy >= 2
        THEN [rooms |-> rt1, is_initiator |-> FALSE, messages |-> <<>>,
              err |-> RESPONSE_ROOM_FULL]
        ELSE IF client_id \in DOMAIN rm
        THEN [rooms |-> rt1, is_initiator |-> FALSE, messages |-> <<>>,
              err |-> RESPONSE_DUPLICATE_CLIENT]
        ELSE IF occupancy = 0
        THEN LET rm1 == client(rm, client_id)
                 rm2 == IF is_loopback THEN client(rm1, LOOPBACK_CLIENT_ID)
                        ELSE rm1
             IN  [rooms |-> (room_id :> rm2) @@ rt1,
                  is_initiator |-> TRUE, messages |-> <<>>, err |-> NoErr]
        ELSE LET other == CHOOSE o \in other_client(rm, client_id) : TRUE
                 messages == rm[other].msgs
                 rm1 == client(rm, client_id)
                 rm2 == (other :> [rm1[other] EXCEPT !.msgs = <<>>]) @@ rm1
             IN  [rooms |-> (room_id :> rm2) @@ rt1,
                  is_initiator |-> TRUE, messages |-> messages,
                  err |-> NoErr]

addClientToRoom(rt, room_id, client_id, is_loopback) ==
    LET rt1 == room(rt, room_id)
        rm == rt1[room_id]
        occupancy == Cardinality(DOMAIN rm)
    IN  IF occupancy >= 2
        THEN [rooms |-> rt1, is_initiator |-> FALSE, messages |-> <<>>,
              err |-> RESPONSE_ROOM_FULL]
        ELSE IF client_id \in DOMAIN rm
        THEN [rooms |-> rt1, is_initiator |-> FALSE, messages |-> <<>>,
              err |-> RESPONSE_DUPLICATE_CLIENT]
        ELSE IF occupancy = 0
        THEN LET rm1 == client(rm, client_id)
                 rm2 == IF is_loopback THEN client(rm1, LOOPBACK_CLIENT_ID)
                        ELSE rm1
             IN  [rooms |-> (room_id :> rm2) @@ rt1,
                  is_initiator |-> TRUE, messages |-> <<>>, err |-> NoErr]
        ELSE LET other == CHOOSE o \in other_client(rm, client_id) : TRUE
                 messages == rm[other].msgs
                 rm1 == client(rm, client_id)
                 rm2 == (other :> [rm1[other] EXCEPT !.msgs = <<>>]) @@ rm1
             IN  [rooms |-> (room_id :> rm2) @@ rt1,
                  is_initiator |-> FALSE, messages |-> messages,
                  err |-> NoErr]

\* removeClientFromRoom with the emptied room left in the table
removeClientFromRoom_keepEmpty(rt, room_id, client_id) ==
    IF room_id \notin DOMAIN rt
    THEN [rooms |-> rt, err |-> RESPONSE_UNKNOWN_ROOM]
    ELSE IF client_id \notin DOMAIN rt[room_id]
    THEN [rooms |-> rt, err |-> RESPONSE_UNKNOWN_CLIENT]
    ELSE LET rm1 == remove(rt[room_id], client_id)
             rm2 == IF LOOPBACK_CLIENT_ID \in DOMAIN rm1
                    THEN remove(rm1, LOOPBACK_CLIENT_ID) ELSE rm1
         IN  [rooms |-> (room_id :>
                  [c \in DOMAIN rm2 |->
                      IF c \in other_client(rm2, client_id)
                      THEN [rm2[c] EXCEPT !.is_initiator = TRUE]
                      ELSE rm2[c]]) @@ rt,
              err |-> NoErr]

\* removeClientFromRoom with the remaining member not promoted
removeClientFromRoom_noPromote(rt, room_id, client_id) ==
    IF room_id \notin DOMAIN rt
    THEN [rooms |-> rt, err |-> RESPONSE_UNKNOWN_ROOM]
    ELSE IF client_id \notin DOMAIN rt[room_id]
    THEN [rooms |-> rt, err |-> RESPONSE_UNKNOWN_CLIENT]
    ELSE LET rm1 == remove(rt[room_id], client_id)
             rm2 == IF LOOPBACK_CLIENT_ID \in DOMAIN rm1
                    THEN remove(rm1, LOOPBACK_CLIENT_ID) ELSE rm1
         IN  IF Cardinality(DOMAIN rm2) > 0
             THEN [rooms |-> (room_id :> rm2) @@ rt, err |-> NoErr]
             ELSE [rooms |-> deleteRoom(rt, room_id), err |-> NoErr]

\* removeClientFromRoom without the test for an unknown client
removeClientFromRoom_noClientTest(rt, room_id, client_id) ==
    IF room_id \notin DOMAIN rt
    THEN [rooms |-> rt, err |-> RESPONSE_UNKNOWN_ROOM]
    ELSE LET rm1 == remove(rt[room_id], client_id)
             rm2 == IF LOOPBACK_CLIENT_ID \in DOMAIN rm1
                    THEN remove(rm1, LOOPBACK_CLIENT_ID) ELSE rm1
         IN  IF Cardinality(DOMAIN rm2) > 0
             THEN [rooms |-> (room_id :>
                      [c \in DOMAIN rm2 |->
                          IF c \in other_client(rm2, client_id)
                          THEN [rm2[c] EXCEPT !.is_initiator = TRUE]
                          ELSE rm2[c]]) @@ rt,
                   err |-> NoErr]
             ELSE [rooms |-> deleteRoom(rt, room_id), err |-> NoErr]

\* removeClientFromRoom leaving the loopback slot in the room
removeClientFromRoom_keepLoopback(rt, room_id, client_id) ==
    IF room_id \notin DOMAIN rt
    THEN [rooms |-> rt, err |-> RESPONSE_UNKNOWN_ROOM]
    ELSE IF client_id \notin DOMAIN rt[room_id]
    THEN [rooms |-> rt, err |-> RESPONSE_UNKNOWN_CLIENT]
    ELSE LET rm2 == remove(rt[room_id], client_id)
         IN  IF Cardinality(DOMAIN rm2) > 0
             THEN [rooms |-> (room_id :>
                      [c \in DOMAIN rm2 |->
                          IF c \in other_client(rm2, client_id)
                          THEN [rm2[c] EXCEPT !.is_initiator = TRUE]
                          ELSE rm2[c]]) @@ rt,
                   err |-> NoErr]
             ELSE [rooms |-> deleteRoom(rt, room_id), err |-> NoErr]

removeClientFromRoom(rt, room_id, client_id) ==
    IF room_id \notin DOMAIN rt
    THEN [rooms |-> rt, err |-> RESPONSE_UNKNOWN_ROOM]
    ELSE IF client_id \notin DOMAIN rt[room_id]
    THEN [rooms |-> rt, err |-> RESPONSE_UNKNOWN_CLIENT]
    ELSE LET rm1 == remove(rt[room_id], client_id)
             rm2 == IF LOOPBACK_CLIENT_ID \in DOMAIN rm1
                    THEN remove(rm1, LOOPBACK_CLIENT_ID) ELSE rm1
         IN  IF Cardinality(DOMAIN rm2) > 0
             THEN [rooms |-> (room_id :>
                      [c \in DOMAIN rm2 |->
                          IF c \in other_client(rm2, client_id)
                          THEN [rm2[c] EXCEPT !.is_initiator = TRUE]
                          ELSE rm2[c]]) @@ rt,
                   err |-> NoErr]
             ELSE [rooms |-> deleteRoom(rt, room_id), err |-> NoErr]

\* saveMessageFromClient with the occupancy test off by one
saveMessageFromClient_offByOne(rt, room_id, client_id, message) ==
    IF room_id \notin DOMAIN rt
    THEN [rooms |-> rt, saved |-> FALSE, err |-> RESPONSE_UNKNOWN_ROOM]
    ELSE IF client_id \notin DOMAIN rt[room_id]
    THEN [rooms |-> rt, saved |-> FALSE, err |-> RESPONSE_UNKNOWN_CLIENT]
    ELSE IF Cardinality(DOMAIN rt[room_id]) > 2
    THEN [rooms |-> rt, saved |-> FALSE, err |-> NoErr]
    ELSE [rooms |-> (room_id :> ((client_id :>
                        enqueue(rt[room_id][client_id], message))
                        @@ rt[room_id])) @@ rt,
          saved |-> TRUE, err |-> NoErr]

saveMessageFromClient(rt, room_id, client_id, message) ==
    IF room_id \notin DOMAIN rt
    THEN [rooms |-> rt, saved |-> FALSE, err |-> RESPONSE_UNKNOWN_ROOM]
    ELSE IF client_id \notin DOMAIN rt[room_id]
    THEN [rooms |-> rt, saved |-> FALSE, err |-> RESPONSE_UNKNOWN_CLIENT]
    ELSE IF Cardinality(DOMAIN rt[room_id]) > 1
    THEN [rooms |-> rt, saved |-> FALSE, err |-> NoErr]
    ELSE [rooms |-> (room_id :> ((client_id :>
                        enqueue(rt[room_id][client_id], message))
                        @@ rt[room_id])) @@ rt,
          saved |-> TRUE, err |-> NoErr]

\* roomTable.send: resolves a member of the room other than the sender and
\* either writes the message to its live connection, which may fail, or
\* appends it to its pending buffer; fails when there is no such member.
\* to is the member resolved and via the path taken.
send(rt, room_id, client_id, message, to, via) ==
    IF room_id \notin DOMAIN rt
    THEN [rooms |-> rt, err |-> RESPONSE_ERROR]
    ELSE IF to \notin other_client(rt[room_id], client_id)
    THEN [rooms |-> rt, err |-> RESPONSE_ERROR]
    ELSE IF via = "live" THEN [rooms |-> rt, err |-> NoErr]
    ELSE IF via = "fail" THEN [rooms |-> rt, err |-> RESPONSE_ERROR]
    ELSE [rooms |-> (room_id :> ((to :> enqueue(rt[room_id][to], message))
                        @@ rt[room_id])) @@ rt,
          err |-> NoErr]

\* the members roomTable.send can resolve for that sender
sendTargets(rt, room_id, client_id) ==
    IF room_id \in DOMAIN rt /\ other_client(rt[room_id], client_id) # {}
    THEN other_client(rt[room_id], client_id)
    ELSE {client_id}

SendVias == {"live", "buffer", "fail"}

\* ------------------------------------------------------------------- replies
\* what a handler writes to its http.ResponseWriter
writeJoinResponse(result, is_initiator, messages) ==
    [code |-> 200, result |-> result, is_initiator |-> is_initiator,
     messages |-> messages]

writeMessageResponse(result) ==
    [code |-> 200, result |-> result, is_initiator |-> FALSE,
     messages |-> <<>>]

httpError(msg) ==
    [code |-> 500, result |-> msg, is_initiator |-> FALSE, messages |-> <<>>]

\* sendMessageToCollider answering SUCCESS whatever roomTable.send returns
sendMessageToCollider_alwaysSuccess(rt, room_id, client_id, message, to, via) ==
    LET s == send(rt, room_id, client_id, message, to, via)
    IN  [rooms |-> s.rooms, err |-> s.err,
         reply |-> writeMessageResponse(RESPONSE_SUCCESS)]

\* sendMessageToCollider: hands the message to roomTable.send and writes the
\* reply
sendMessageToCollider(rt, room_id, client_id, message, to, via) ==
    LET s == send(rt, room_id, client_id, message, to, via)
    IN  [rooms |-> s.rooms, err |-> s.err,
         reply |-> IF s.err # NoErr
                   THEN httpError("Failed to send the message")
                   ELSE writeMessageResponse(RESPONSE_SUCCESS)]

\* ------------------------------------------------------------------ handlers
\* record of the latest request handled: its inputs, whether it reached its
\* store operation, the store before it (pre), the store after its store
\* operation (mid), what the store operation returned, whether
\* sendMessageToCollider was called and the replies written
NoRequest ==
    [op |-> "none", room_id |-> "", client_id |-> "", is_loopback |-> FALSE,
     body |-> "", reached |-> FALSE, pre |-> <<>>, mid |-> <<>>,
     is_initiator |-> FALSE,
     messages |-> <<>>, err |-> NoErr, saved |-> FALSE, forwarded |-> FALSE,
     sendErr |-> NoErr, replies |-> <<>>]

\* no pending buffer is longer than the model's bound
WithinBound(rt) ==
    \A r \in DOMAIN rt : \A c \in DOMAIN rt[r] : Len(rt[r][c].msgs) <= MaxMsgs

\* each handler, run on the store rt: the store it leaves (rooms) and the
\* record of the request (last)
httpJoinHandler(rt, nparts, room_id, client_id, is_loopback) ==
    LET req == [NoRequest EXCEPT !.op = "join", !.room_id = room_id,
                   !.client_id = client_id, !.is_loopback = is_loopback,
                   !.pre = rt]
    IN  IF nparts # 3
        THEN [rooms |-> rt,
              last |-> [req EXCEPT !.mid = rt,
                           !.replies = <<httpError("Invalid path")>>]]
        ELSE LET a == addClientToRoom(rt, room_id, client_id, is_loopback)
             IN  [rooms |-> a.rooms,
                  last |-> [req EXCEPT !.reached = TRUE, !.mid = a.rooms,
                      !.is_initiator = a.is_initiator,
                      !.messages = a.messages, !.err = a.err,
                      !.replies =
                         IF a.err # NoErr
                         THEN <<writeJoinResponse(a.err, FALSE, <<>>)>>
                         ELSE <<writeJoinResponse(RESPONSE_SUCCESS,
                                    a.is_initiator, a.messages)>>]]

httpLeaveHandler(rt, nparts, room_id, client_id) ==
    LET req == [NoRequest EXCEPT !.op = "leave", !.room_id = room_id,
                   !.client_id = client_id, !.pre = rt]
    IN  IF nparts # 4
        THEN [rooms |-> rt,
              last |-> [req EXCEPT !.mid = rt,
                           !.replies = <<httpError("Invalid path")>>]]
        ELSE LET d == removeClientFromRoom(rt, room_id, client_id)
             IN  [rooms |-> d.rooms,
                  last |-> [req EXCEPT !.reached = TRUE, !.mid = d.rooms,
                               !.err = d.err]]

httpMessageHandler(rt, nparts, room_id, client_id, body, to, via) ==
    LET req == [NoRequest EXCEPT !.op = "message", !.room_id = room_id,
                   !.client_id = client_id, !.body = body, !.pre = rt]
    IN  IF nparts # 4
        THEN [rooms |-> rt,
              last |-> [req EXCEPT !.mid = rt,
                           !.replies = <<httpError("Invalid path")>>]]
        ELSE IF body = ""
        THEN [rooms |-> rt,
              last |-> [req EXCEPT !.mid = rt,
                           !.replies = <<httpError("Empty request body")>>]]
        ELSE LET s == saveMessageFromClient(rt, room_id, client_id, body)
                 first == IF s.err # NoErr
                          THEN <<writeMessageResponse(s.err)>> ELSE <<>>
                 f == sendMessageToCollider(s.rooms, room_id, client_id,
                                            body, to, via)
             IN  IF ~s.saved
                 THEN [rooms |-> f.rooms,
                       last |-> [req EXCEPT !.reached = TRUE,
                            !.mid = s.rooms, !.err = s.err,
                            !.saved = s.saved,
                            !.forwarded = TRUE, !.sendErr = f.err,
                            !.replies = Append(first, f.reply)]]
                 ELSE [rooms |-> s.rooms,
                       last |-> [req EXCEPT !.reached = TRUE,
                            !.mid = s.rooms, !.err = s.err,
                            !.saved = s.saved,
                            !.replies = Append(first,
                                writeMessageResponse(RESPONSE_SUCCESS))]]

\* ------------------------------------------------------- websocket sessions
\* a field the JSON document of a command does not carry
Absent == "(absent)"

\* the command names a client can send; "bogus" stands for any other name
Cmds == {"register", "send", "bogus"}

\* the JSON documents a client can send as one command
Frames ==
    [cmd : Cmds \cup {Absent},
     roomid : RoomIds \cup {"", Absent},
     clientid : {"00000001", "00000003", "", Absent},
     msg : Bodies \cup {Absent}]

\* var msg wsClientMsg: the zero value
ZeroMsg == [Cmd |-> "", RoomID |-> "", ClientID |-> "", Msg |-> ""]

\* websocket.JSON.Receive(ws, &msg): the document is unmarshalled into the
\* msg the loop reuses, so a field the document does not carry keeps the
\* value an earlier command left in it
Receive(msg, frame) ==
    [Cmd |-> IF frame.cmd = Absent THEN msg.Cmd ELSE frame.cmd,
     RoomID |-> IF frame.roomid = Absent THEN msg.RoomID ELSE frame.roomid,
     ClientID |-> IF frame.clientid = Absent THEN msg.ClientID
                  ELSE frame.clientid,
     Msg |-> IF frame.msg = Absent THEN msg.Msg ELSE frame.msg]

\* roomTable.register: binds the connection to the client of that pair,
\* creating the room and the client when absent; fails when the pair holds
\* a live connection already or the room has no free slot
register(rt, cn, rid, cid) ==
    IF <<rid, cid>> \in cn
    THEN [rooms |-> rt, conn |-> cn, err |-> RESPONSE_DUPLICATE_CLIENT]
    ELSE IF /\ rid \in DOMAIN rt /\ cid \notin DOMAIN rt[rid]
            /\ Cardinality(DOMAIN rt[rid]) >= 2
    THEN [rooms |-> rt, conn |-> cn, err |-> RESPONSE_ROOM_FULL]
    ELSE LET rt1 == room(rt, rid)
         IN  [rooms |-> (rid :> client(rt1[rid], cid)) @@ rt1,
              conn |-> cn \cup {<<rid, cid>>}, err |-> NoErr]

\* roomTable.deregister: unbinds the connection of that pair; the client
\* stays a member of its room
deregister(cn, rid, cid) == cn \ {<<rid, cid>>}

\* the paths roomTable.send can take to the member to
wsSendVias(cn, rid, to) ==
    IF <<rid, to>> \in cn THEN {"live", "fail"} ELSE {"buffer"}

\* a connection not yet accepted or already closed; state is the position of
\* wsHandler (open: blocked in Receive), registered, rid, cid and msg are its
\* locals, deferred the calls deferred so far, n the number of commands
\* received on all sessions; frame, prev (the locals before), pre and preConn
\* (the store and the bindings before), calls (the store operations called)
\* and errors (the wsError messages) record the latest loop iteration
NoSession ==
    [state |-> "closed", registered |-> FALSE, rid |-> "", cid |-> "",
     msg |-> ZeroMsg, deferred |-> <<>>, n |-> 0,
     frame |-> [cmd |-> Absent, roomid |-> Absent, clientid |-> Absent,
                msg |-> Absent],
     handled |-> FALSE,
     prev |-> [registered |-> FALSE, rid |-> "", cid |-> ""],
     pre |-> <<>>, preConn |-> {}, calls |-> <<>>, errors |-> <<>>]

\* the deferred deregister calls run, the latest first
RECURSIVE runDeferred(_, _)
runDeferred(cn, deferred) ==
    IF deferred = <<>> THEN cn
    ELSE runDeferred(deregister(cn, deferred[Len(deferred)][1],
                                deferred[Len(deferred)][2]),
                     SubSeq(deferred, 1, Len(deferred) - 1))

\* wsHandler returning without running its deferred calls
wsReturn_noDeferred(rt, cn, W) ==
    [rooms |-> rt, conn |-> cn, ws |-> [W EXCEPT !.state = "closed"]]

\* wsHandler returns: the deferred deregister calls run, then ws.Close()
wsReturn(rt, cn, W) ==
    [rooms |-> rt,
     conn |-> runDeferred(cn, W.deferred),
     ws |-> [W EXCEPT !.state = "closed",
                !.calls = W.calls \o
                    [i \in 1..Len(W.deferred) |->
                        [op |-> "deregister",
                         rid |-> W.deferred[Len(W.deferred) + 1 - i][1],
                         cid |-> W.deferred[Len(W.deferred) + 1 - i][2],
                         msg |-> ""]]]]

\* wsHandler without the test that rejects a second register
wsHandler_reRegister(rt, cn, W0, frame, to, via) ==
    LET msg == Receive(W0.msg, frame)
        W == [W0 EXCEPT !.msg = msg, !.n = W0.n + 1, !.frame = frame,
                 !.handled = TRUE,
                 !.prev = [registered |-> W0.registered, rid |-> W0.rid,
                           cid |-> W0.cid],
                 !.pre = rt, !.preConn = cn, !.calls = <<>>,
                 !.errors = <<>>]
    IN  IF msg.Cmd = "register"
        THEN IF FALSE
             THEN wsReturn(rt, cn, [W EXCEPT !.errors =
                      <<"Duplicated register request">>])
             ELSE IF msg.RoomID = "" \/ msg.ClientID = ""
             THEN wsReturn(rt, cn, [W EXCEPT !.errors =
                      <<"Invalid register request">>])
             ELSE LET r == register(rt, cn, msg.RoomID, msg.ClientID)
                      call == [op |-> "register", rid |-> msg.RoomID,
                               cid |-> msg.ClientID, msg |-> ""]
                  IN  IF r.err # NoErr
                      THEN wsReturn(r.rooms, r.conn,
                               [W EXCEPT !.calls = <<call>>,
                                         !.errors = <<r.err>>])
                      ELSE [rooms |-> r.rooms, conn |-> r.conn,
                            ws |-> [W EXCEPT !.calls = <<call>>,
                                       !.registered = TRUE,
                                       !.rid = msg.RoomID,
                                       !.cid = msg.ClientID,
                                       !.deferred = Append(W.deferred,
                                           <<msg.RoomID, msg.ClientID>>)]]
        ELSE IF msg.Cmd = "send"
        THEN IF ~W.registered
             THEN wsReturn(rt, cn, [W EXCEPT !.errors =
                      <<"Client not registered">>])
             ELSE IF msg.Msg = ""
             THEN wsReturn(rt, cn, [W EXCEPT !.errors =
                      <<"Invalid send request">>])
             ELSE LET s == send(rt, W.rid, W.cid, msg.Msg, to, via)
                  IN  [rooms |-> s.rooms, conn |-> cn,
                       ws |-> [W EXCEPT !.calls =
                                  <<[op |-> "send", rid |-> W.rid,
                                     cid |-> W.cid, msg |-> msg.Msg]>>]]
        ELSE [rooms |-> rt, conn |-> cn,
              ws |-> [W EXCEPT !.errors = <<"Invalid message">>]]

\* wsHandler without the test that rejects a send before register
wsHandler_sendUnregistered(rt, cn, W0, frame, to, via) ==
    LET msg == Receive(W0.msg, frame)
        W == [W0 EXCEPT !.msg = msg, !.n = W0.n + 1, !.frame = frame,
                 !.handled = TRUE,
                 !.prev = [registered |-> W0.registered, rid |-> W0.rid,
                           cid |-> W0.cid],
                 !.pre = rt, !.preConn = cn, !.calls = <<>>,
                 !.errors = <<>>]
    IN  IF msg.Cmd = "register"
        THEN IF W.registered
             THEN wsReturn(rt, cn, [W EXCEPT !.errors =
                      <<"Duplicated register request">>])
             ELSE IF msg.RoomID = "" \/ msg.ClientID = ""
             THEN wsReturn(rt, cn, [W EXCEPT !.errors =
                      <<"Invalid register request">>])
             ELSE LET r == register(rt, cn, msg.RoomID, msg.ClientID)
                      call == [op |-> "register", rid |-> msg.RoomID,
                               cid |-> msg.ClientID, msg |-> ""]
                  IN  IF r.err # NoErr
                      THEN wsReturn(r.rooms, r.conn,
                               [W EXCEPT !.calls = <<call>>,
                                         !.errors = <<r.err>>])
                      ELSE [rooms |-> r.rooms, conn |-> r.conn,
                            ws |-> [W EXCEPT !.calls = <<call>>,
                                       !.registered = TRUE,
                                       !.rid = msg.RoomID,
                                       !.cid = msg.ClientID,
                                       !.deferred = Append(W.deferred,
                                           <<msg.RoomID, msg.ClientID>>)]]
        ELSE IF msg.Cmd = "send"
        THEN IF FALSE
             THEN wsReturn(rt, cn, [W EXCEPT !.errors =
                      <<"Client not registered">>])
             ELSE IF msg.Msg = ""
             THEN wsReturn(rt, cn, [W EXCEPT !.errors =
                      <<"Invalid send request">>])
             ELSE LET s == send(rt, W.rid, W.cid, msg.Msg, to, via)
                  IN  [rooms |-> s.rooms, conn |-> cn,
                       ws |-> [W EXCEPT !.calls =
                                  <<[op |-> "send", rid |-> W.rid,
                                     cid |-> W.cid, msg |-> msg.Msg]>>]]
        ELSE [rooms |-> rt, conn |-> cn,
              ws |-> [W EXCEPT !.errors = <<"Invalid message">>]]

\* one iteration of the loop of wsHandler on the command frame; to and via
\* are the member and the path roomTable.send resolves
wsHandler(rt, cn, W0, frame, to, via) ==
    LET msg == Receive(W0.msg, frame)
        W == [W0 EXCEPT !.msg = msg, !.n = W0.n + 1, !.frame = frame,
                 !.handled = TRUE,
                 !.prev = [registered |-> W0.registered, rid |-> W0.rid,
                           cid |-> W0.cid],
                 !.pre = rt, !.preConn = cn, !.calls = <<>>,
                 !.errors = <<>>]
    IN  IF msg.Cmd = "register"
        THEN IF W.registered
             THEN wsReturn(rt, cn, [W EXCEPT !.errors =
                      <<"Duplicated register request">>])
             ELSE IF msg.RoomID = "" \/ msg.ClientID = ""
             THEN wsReturn(rt, cn, [W EXCEPT !.errors =
                      <<"Invalid register request">>])
             ELSE LET r == register(rt, cn, msg.RoomID, msg.ClientID)
                      call == [op |-> "register", rid |-> msg.RoomID,
                               cid |-> msg.ClientID, msg |-> ""]
                  IN  IF r.err # NoErr
                      THEN wsReturn(r.rooms, r.conn,
                               [W EXCEPT !.calls = <<call>>,
                                         !.errors = <<r.err>>])
                      ELSE [rooms |-> r.rooms, conn |-> r.conn,
                            ws |-> [W EXCEPT !.calls = <<call>>,
                                       !.registered = TRUE,
                                       !.rid = msg.RoomID,
                                       !.cid = msg.ClientID,
                                       !.deferred = Append(W.deferred,
                                           <<msg.RoomID, msg.ClientID>>)]]
        ELSE IF msg.Cmd = "send"
        THEN IF ~W.registered
             THEN wsReturn(rt, cn, [W EXCEPT !.errors =
                      <<"Client not registered">>])
             ELSE IF msg.Msg = ""
             THEN wsReturn(rt, cn, [W EXCEPT !.errors =
                      <<"Invalid send request">>])
             ELSE LET s == send(rt, W.rid, W.cid, msg.Msg, to, via)
                  IN  [rooms |-> s.rooms, conn |-> cn,
                       ws |-> [W EXCEPT !.calls =
                                  <<[op |-> "send", rid |-> W.rid,
                                     cid |-> W.cid, msg |-> msg.Msg]>>]]
        ELSE [rooms |-> rt, conn |-> cn,
              ws |-> [W EXCEPT !.errors = <<"Invalid message">>]]

\* ------------------------------------------------------------- specification
\* the room table without rooms
EmptyTable == [r \in {} |-> newRoom]

\* a goroutine that serves no request
Idle ==
    [pc |-> "idle", op |-> "none", nparts |-> 0, room_id |-> "",
     client_id |-> "", is_loopback |-> FALSE, body |-> "", room |-> nil,
     occupancy |-> 0, ptr |-> nil, is_initiator |-> FALSE, messages |-> <<>>,
     err |-> NoErr, saved |-> FALSE, forwarded |-> FALSE, replies |-> <<>>]

\* NewCollider: an empty room table
Init ==
    /\ rooms = EmptyTable
    /\ last = NoRequest
    /\ table = EmptyTable
    /\ roomObjs = <<>>
    /\ clientObjs = <<>>
    /\ goroutine = [g \in Goroutines |-> Idle]
    /\ store0 = EmptyTable
    /\ ws = NoSession
    /\ conn = {}

Join ==
    \E nparts \in JoinParts, room_id \in RoomIds, client_id \in RandomIds,
       is_loopback \in BOOLEAN :
        LET h == httpJoinHandler(rooms, nparts, room_id, client_id,
                                 is_loopback)
        IN  /\ rooms' = h.rooms /\ last' = h.last
            /\ UNCHANGED <<concVars, wsVars>>

Leave ==
    \E nparts \in MessageParts, room_id \in RoomIds, client_id \in ClientIds :
        LET h == httpLeaveHandler(rooms, nparts, room_id, client_id)
        IN  /\ rooms' = h.rooms /\ last' = h.last
            /\ UNCHANGED <<concVars, wsVars>>

Message ==
    \E nparts \in MessageParts, room_id \in RoomIds, client_id \in ClientIds,
       body \in Bodies :
        \E to \in sendTargets(rooms, room_id, client_id), via \in SendVias :
            LET h == httpMessageHandler(rooms, nparts, room_id, client_id,
                                        body, to, via)
            IN  /\ WithinBound(h.rooms)
                /\ rooms' = h.rooms /\ last' = h.last
                /\ UNCHANGED <<concVars, wsVars>>

Next == Join \/ Leave \/ Message

Spec == Init /\ [][Next]_vars

\* ------------------------------------------------- requests served concurrently
\* net/http runs every handler in a goroutine of its own, and the store
\* operations take no lock: only roomTable.room and roomTable.send are
\* atomic.  Each goroutine serves one request, one statement at a time.

\* stores the server can be in when the goroutines start
StoreOne == addClientToRoom(EmptyTable, "R1", "00000001", FALSE).rooms
StoreOneMsgs ==
    saveMessageFromClient(
        saveMessageFromClient(StoreOne, "R1", "00000001", "offer").rooms,
        "R1", "00000001", "candidate").rooms
StoreTwo == addClientToRoom(StoreOne, "R1", "00000002", FALSE).rooms
StoreLoopback == addClientToRoom(EmptyTable, "R1", "00000001", TRUE).rooms
InitStores == {EmptyTable, StoreOne, StoreOneMsgs, StoreTwo, StoreLoopback}

\* the elements of a finite set S in some fixed order
RECURSIVE SeqOf(_)
SeqOf(S) ==
    IF S = {} THEN <<>>
    ELSE LET x == CHOOSE y \in S : TRUE IN <<x>> \o SeqOf(S \ {x})

IndexOf(seq, x) == CHOOSE i \in 1..Len(seq) : seq[i] = x

\* the members of the store rt, as <<room id, client id>>
Cells(rt) == SeqOf(UNION {{<<r, c>> : c \in DOMAIN rt[r]} : r \in DOMAIN rt})

\* the heap that holds the store rt
HeapTable(rt) == [r \in DOMAIN rt |-> IndexOf(SeqOf(DOMAIN rt), r)]
HeapRooms(rt) ==
    [i \in 1..Len(SeqOf(DOMAIN rt)) |->
        [c \in DOMAIN rt[SeqOf(DOMAIN rt)[i]] |->
            IndexOf(Cells(rt), <<SeqOf(DOMAIN rt)[i], c>>)]]
HeapClients(rt) ==
    [i \in 1..Len(Cells(rt)) |-> rt[Cells(rt)[i][1]][Cells(rt)[i][2]]]

\* the store a heap holds: the rooms of the table with their clients
Deref(tb, ro, co) ==
    [r \in DOMAIN tb |-> [c \in DOMAIN ro[tb[r]] |-> co[ro[tb[r]][c]]]]

InitConc ==
    /\ rooms = EmptyTable
    /\ last = NoRequest
    /\ store0 \in InitStores
    /\ table = HeapTable(store0)
    /\ roomObjs = HeapRooms(store0)
    /\ clientObjs = HeapClients(store0)
    /\ goroutine = [g \in Goroutines |-> Idle]
    /\ ws = NoSession
    /\ conn = {}

Upd(g, rec) == goroutine' = (g :> rec) @@ goroutine

\* the handler returns: its locals are dropped
Return(G) == [G EXCEPT !.pc = "done", !.room = nil, !.occupancy = 0,
                       !.ptr = nil]

\* room := c.roomTable.room(room_id), then on to pc next
GetRoom(g, next) ==
    LET G == goroutine[g]
    IN  IF G.room_id \in DOMAIN table
        THEN /\ Upd(g, [G EXCEPT !.room = table[G.room_id], !.pc = next])
             /\ UNCHANGED <<table, roomObjs, clientObjs>>
        ELSE /\ roomObjs' = Append(roomObjs, newRoom)
             /\ table' = (G.room_id :> (Len(roomObjs) + 1)) @@ table
             /\ Upd(g, [G EXCEPT !.room = Len(roomObjs) + 1, !.pc = next])
             /\ UNCHANGED clientObjs

\* room.client(client_id) on the room object ref
RoomClient(ref, client_id) ==
    LET rm == roomObjs[ref]
    IN  IF client_id \in DOMAIN rm \/ Cardinality(DOMAIN rm) >= 2
        THEN UNCHANGED <<roomObjs, clientObjs>>
        ELSE /\ clientObjs' = Append(clientObjs, newClient(DOMAIN rm = {}))
             /\ roomObjs' = (ref :> ((client_id :> (Len(clientObjs) + 1)) @@ rm))
                                @@ roomObjs

\* room.remove(client_id) on the room object ref
RoomRemove(ref, client_id) ==
    roomObjs' = (ref :> remove(roomObjs[ref], client_id)) @@ roomObjs

\* -- httpJoinHandler and addClientToRoom
StartJoin(g) ==
    /\ goroutine[g].pc = "idle"
    /\ \E nparts \in JoinParts, room_id \in RoomIds, client_id \in RandomIds,
          is_loopback \in BOOLEAN :
          LET G == [Idle EXCEPT !.op = "join", !.nparts = nparts,
                       !.room_id = room_id, !.client_id = client_id,
                       !.is_loopback = is_loopback]
          IN  IF nparts # 3
              THEN Upd(g, Return([G EXCEPT
                          !.replies = <<httpError("Invalid path")>>]))
              ELSE Upd(g, [G EXCEPT !.pc = "add_room"])
    /\ UNCHANGED <<table, roomObjs, clientObjs>>

AddRoom(g) ==
    /\ goroutine[g].pc = "add_room"
    /\ GetRoom(g, "add_occupancy")

AddOccupancy(g) ==
    LET G == goroutine[g]
    IN  /\ G.pc = "add_occupancy"
        /\ Upd(g, [G EXCEPT !.occupancy = Cardinality(DOMAIN roomObjs[G.room]),
                            !.pc = "add_check"])
        /\ UNCHANGED <<table, roomObjs, clientObjs>>

AddCheck(g) ==
    LET G == goroutine[g]
    IN  /\ G.pc = "add_check"
        /\ Upd(g, IF G.occupancy >= 2
                  THEN [G EXCEPT !.err = RESPONSE_ROOM_FULL,
                                 !.pc = "join_reply"]
                  ELSE IF G.client_id \in DOMAIN roomObjs[G.room]
                  THEN [G EXCEPT !.err = RESPONSE_DUPLICATE_CLIENT,
                                 !.pc = "join_reply"]
                  ELSE IF G.occupancy = 0
                  THEN [G EXCEPT !.is_initiator = TRUE, !.pc = "add_first"]
                  ELSE [G EXCEPT !.is_initiator = FALSE, !.pc = "add_read"])
        /\ UNCHANGED <<table, roomObjs, clientObjs>>

AddFirst(g) ==
    LET G == goroutine[g]
    IN  /\ G.pc = "add_first"
        /\ RoomClient(G.room, G.client_id)
        /\ Upd(g, [G EXCEPT !.pc = IF G.is_loopback THEN "add_loopback"
                                   ELSE "join_reply"])
        /\ UNCHANGED table

AddLoopback(g) ==
    LET G == goroutine[g]
    IN  /\ G.pc = "add_loopback"
        /\ RoomClient(G.room, LOOPBACK_CLIENT_ID)
        /\ Upd(g, [G EXCEPT !.pc = "join_reply"])
        /\ UNCHANGED table

\* other_client, _ := room.other_client(client_id); messages =
\* other_client.msgs: a nil other_client makes the handler panic, and the
\* server drops the request without a reply
AddRead(g) ==
    LET G == goroutine[g]
        others == other_client(roomObjs[G.room], G.client_id)
    IN  /\ G.pc = "add_read"
        /\ IF others = {}
           THEN Upd(g, Return([G EXCEPT !.err = "panic"]))
           ELSE \E o \in others :
                   Upd(g, [G EXCEPT !.ptr = roomObjs[G.room][o],
                              !.messages = clientObjs[roomObjs[G.room][o]].msgs,
                              !.pc = "add_second"])
        /\ UNCHANGED <<table, roomObjs, clientObjs>>

AddSecond(g) ==
    LET G == goroutine[g]
    IN  /\ G.pc = "add_second"
        /\ RoomClient(G.room, G.client_id)
        /\ Upd(g, [G EXCEPT !.pc = "add_clear"])
        /\ UNCHANGED table

AddClear(g) ==
    LET G == goroutine[g]
    IN  /\ G.pc = "add_clear"
        /\ clientObjs' = (G.ptr :> [clientObjs[G.ptr] EXCEPT !.msgs = <<>>])
                            @@ clientObjs
        /\ Upd(g, [G EXCEPT !.pc = "join_reply"])
        /\ UNCHANGED <<table, roomObjs>>

JoinReply(g) ==
    LET G == goroutine[g]
    IN  /\ G.pc = "join_reply"
        /\ Upd(g, Return([G EXCEPT !.replies =
                 IF G.err # NoErr
                 THEN <<writeJoinResponse(G.err, FALSE, <<>>)>>
                 ELSE <<writeJoinResponse(RESPONSE_SUCCESS, G.is_initiator,
                                          G.messages)>>]))
        /\ UNCHANGED <<table, roomObjs, clientObjs>>

\* -- httpLeaveHandler and removeClientFromRoom
StartLeave(g) ==
    /\ goroutine[g].pc = "idle"
    /\ \E nparts \in MessageParts, room_id \in RoomIds,
          client_id \in ClientIds :
          LET G == [Idle EXCEPT !.op = "leave", !.nparts = nparts,
                       !.room_id = room_id, !.client_id = client_id]
          IN  IF nparts # 4
              THEN Upd(g, Return([G EXCEPT
                          !.replies = <<httpError("Invalid path")>>]))
              ELSE Upd(g, [G EXCEPT !.pc = "rm_lookup"])
    /\ UNCHANGED <<table, roomObjs, clientObjs>>

RmLookup(g) ==
    LET G == goroutine[g]
    IN  /\ G.pc = "rm_lookup"
        /\ Upd(g, IF G.room_id \notin DOMAIN table
                  THEN Return([G EXCEPT !.err = RESPONSE_UNKNOWN_ROOM])
                  ELSE [G EXCEPT !.pc = "rm_room"])
        /\ UNCHANGED <<table, roomObjs, clientObjs>>

RmRoom(g) ==
    /\ goroutine[g].pc = "rm_room"
    /\ GetRoom(g, "rm_check")

RmCheck(g) ==
    LET G == goroutine[g]
    IN  /\ G.pc = "rm_check"
        /\ Upd(g, IF G.client_id \notin DOMAIN roomObjs[G.room]
                  THEN Return([G EXCEPT !.err = RESPONSE_UNKNOWN_CLIENT])
                  ELSE [G EXCEPT !.pc = "rm_remove"])
        /\ UNCHANGED <<table, roomObjs, clientObjs>>

RmRemove(g) ==
    LET G == goroutine[g]
    IN  /\ G.pc = "rm_remove"
        /\ RoomRemove(G.room, G.client_id)
        /\ Upd(g, [G EXCEPT !.pc = "rm_loopback"])
        /\ UNCHANGED <<table, clientObjs>>

RmLoopback(g) ==
    LET G == goroutine[g]
    IN  /\ G.pc = "rm_loopback"
        /\ IF LOOPBACK_CLIENT_ID \in DOMAIN roomObjs[G.room]
           THEN RoomRemove(G.room, LOOPBACK_CLIENT_ID)
           ELSE UNCHANGED roomObjs
        /\ Upd(g, [G EXCEPT !.pc = "rm_finish"])
        /\ UNCHANGED <<table, clientObjs>>

RmFinish(g) ==
    LET G == goroutine[g]
        others == other_client(roomObjs[G.room], G.client_id)
    IN  /\ G.pc = "rm_finish"
        /\ IF Cardinality(DOMAIN roomObjs[G.room]) > 0
           THEN /\ IF others = {} THEN UNCHANGED clientObjs
                   ELSE \E o \in others :
                           clientObjs' =
                               (roomObjs[G.room][o] :>
                                   [clientObjs[roomObjs[G.room][o]]
                                       EXCEPT !.is_initiator = TRUE])
                               @@ clientObjs
                /\ UNCHANGED table
           ELSE /\ table' = deleteRoom(table, G.room_id)
                /\ UNCHANGED clientObjs
        /\ Upd(g, Return(G))
        /\ UNCHANGED roomObjs

\* -- httpMessageHandler, saveMessageFromClient and sendMessageToCollider
StartMessage(g) ==
    /\ goroutine[g].pc = "idle"
    /\ \E nparts \in MessageParts, room_id \in RoomIds,
          client_id \in ClientIds, body \in Bodies :
          LET G == [Idle EXCEPT !.op = "message", !.nparts = nparts,
                       !.room_id = room_id, !.client_id = client_id,
                       !.body = body]
          IN  IF nparts # 4
              THEN Upd(g, Return([G EXCEPT
                          !.replies = <<httpError("Invalid path")>>]))
              ELSE IF body = ""
              THEN Upd(g, Return([G EXCEPT
                          !.replies = <<httpError("Empty request body")>>]))
              ELSE Upd(g, [G EXCEPT !.pc = "save_lookup"])
    /\ UNCHANGED <<table, roomObjs, clientObjs>>

SaveLookup(g) ==
    LET G == goroutine[g]
    IN  /\ G.pc = "save_lookup"
        /\ Upd(g, IF G.room_id \notin DOMAIN table
                  THEN [G EXCEPT !.err = RESPONSE_UNKNOWN_ROOM,
                                 !.pc = "message_reply"]
                  ELSE [G EXCEPT !.pc = "save_room"])
        /\ UNCHANGED <<table, roomObjs, clientObjs>>

SaveRoom(g) ==
    /\ goroutine[g].pc = "save_room"
    /\ GetRoom(g, "save_client")

SaveClient(g) ==
    LET G == goroutine[g]
    IN  /\ G.pc = "save_client"
        /\ Upd(g, IF G.client_id \notin DOMAIN roomObjs[G.room]
                  THEN [G EXCEPT !.err = RESPONSE_UNKNOWN_CLIENT,
                                 !.pc = "message_reply"]
                  ELSE [G EXCEPT !.ptr = roomObjs[G.room][G.client_id],
                                 !.pc = "save_len"])
        /\ UNCHANGED <<table, roomObjs, clientObjs>>

SaveLen(g) ==
    LET G == goroutine[g]
    IN  /\ G.pc = "save_len"
        /\ Upd(g, [G EXCEPT !.pc =
                      IF Cardinality(DOMAIN roomObjs[G.room]) > 1
                      THEN "message_reply" ELSE "save_enqueue"])
        /\ UNCHANGED <<table, roomObjs, clientObjs>>

SaveEnqueue(g) ==
    LET G == goroutine[g]
    IN  /\ G.pc = "save_enqueue"
        /\ clientObjs' = (G.ptr :> enqueue(clientObjs[G.ptr], G.body))
                            @@ clientObjs
        /\ Upd(g, [G EXCEPT !.saved = TRUE, !.pc = "message_reply"])
        /\ UNCHANGED <<table, roomObjs>>

MessageReply(g) ==
    LET G == goroutine[g]
        first == IF G.err # NoErr THEN <<writeMessageResponse(G.err)>>
                 ELSE <<>>
    IN  /\ G.pc = "message_reply"
        /\ Upd(g, IF ~G.saved
                  THEN [G EXCEPT !.replies = first, !.pc = "forward"]
                  ELSE Return([G EXCEPT !.replies =
                          Append(first,
                                 writeMessageResponse(RESPONSE_SUCCESS))]))
        /\ UNCHANGED <<table, roomObjs, clientObjs>>

\* sendMessageToCollider: roomTable.send runs under the table's lock
Forward(g) ==
    LET G == goroutine[g]
        rt == Deref(table, roomObjs, clientObjs)
    IN  /\ G.pc = "forward"
        /\ \E to \in sendTargets(rt, G.room_id, G.client_id),
              via \in SendVias :
              LET f == sendMessageToCollider(rt, G.room_id, G.client_id,
                                             G.body, to, via)
              IN  /\ clientObjs' =
                        IF f.rooms = rt THEN clientObjs
                        ELSE (roomObjs[table[G.room_id]][to] :>
                                 f.rooms[G.room_id][to]) @@ clientObjs
                  /\ Upd(g, Return([G EXCEPT !.forwarded = TRUE,
                              !.replies = Append(G.replies, f.reply)]))
        /\ UNCHANGED <<table, roomObjs>>

\* the part of the state a goroutine step leaves alone
Frame == UNCHANGED <<rooms, last, store0, ws, conn>>

NextConc ==
    \E g \in Goroutines :
        \/ StartJoin(g) /\ Frame
        \/ AddRoom(g) /\ Frame
        \/ AddOccupancy(g) /\ Frame
        \/ AddCheck(g) /\ Frame
        \/ AddFirst(g) /\ Frame
        \/ AddLoopback(g) /\ Frame
        \/ AddRead(g) /\ Frame
        \/ AddSecond(g) /\ Frame
        \/ AddClear(g) /\ Frame
        \/ JoinReply(g) /\ Frame
        \/ StartLeave(g) /\ Frame
        \/ RmLookup(g) /\ Frame
        \/ RmRoom(g) /\ Frame
        \/ RmCheck(g) /\ Frame
        \/ RmRemove(g) /\ Frame
        \/ RmLoopback(g) /\ Frame
        \/ RmFinish(g) /\ Frame
        \/ StartMessage(g) /\ Frame
        \/ SaveLookup(g) /\ Frame
        \/ SaveRoom(g) /\ Frame
        \/ SaveClient(g) /\ Frame
        \/ SaveLen(g) /\ Frame
        \/ SaveEnqueue(g) /\ Frame
        \/ MessageReply(g) /\ Frame
        \/ Forward(g) /\ Frame

SpecConc == InitConc /\ [][NextConc]_vars

\* ------------------------------------------------ sessions served by wsHandler
\* longest sequence of commands the model lets the clients send
MaxCmds == 3

\* the stores and bindings the server can be in when a connection is
\* accepted: member 00000002 of a two-member room may hold a connection
InitWs ==
    /\ rooms \in InitStores
    /\ conn \in IF rooms = StoreTwo THEN {{}, {<<"R1", "00000002">>}}
                ELSE {{}}
    /\ last = NoRequest
    /\ table = EmptyTable
    /\ roomObjs = <<>>
    /\ clientObjs = <<>>
    /\ goroutine = [g \in Goroutines |-> Idle]
    /\ store0 = rooms
    /\ ws = NoSession

\* websocket.Handler calls wsHandler for a new connection
WsAccept ==
    /\ ws.state = "closed"
    /\ ws' = [NoSession EXCEPT !.state = "open", !.n = ws.n]
    /\ UNCHANGED <<rooms, conn, last, concVars>>

\* a command arrives and one iteration of the loop runs
WsCommand ==
    /\ ws.state = "open"
    /\ ws.n < MaxCmds
    /\ \E frame \in Frames :
          \E to \in sendTargets(rooms, ws.rid, ws.cid) :
              \E via \in wsSendVias(conn, ws.rid, to) :
                  LET h == wsHandler(rooms, conn, ws, frame, to, via)
                  IN  rooms' = h.rooms /\ conn' = h.conn /\ ws' = h.ws
    /\ UNCHANGED <<last, concVars>>

\* Receive or SetReadDeadline fails (the peer closed the connection, a read
\* error, the read deadline): the loop is left
WsReadError ==
    /\ ws.state = "open"
    /\ LET W == [ws EXCEPT !.handled = FALSE,
                    !.prev = [registered |-> ws.registered, rid |-> ws.rid,
                              cid |-> ws.cid],
                    !.pre = rooms, !.preConn = conn, !.calls = <<>>,
                    !.errors = <<>>]
           h == wsReturn(rooms, conn, W)
       IN  rooms' = h.rooms /\ conn' = h.conn /\ ws' = h.ws
    /\ UNCHANGED <<last, concVars>>

NextWs == WsAccept \/ WsCommand \/ WsReadError

SpecWs == InitWs /\ [][NextWs]_vars

\* ------------------------------------------------------------------- claims
\* the members of a room of the store rt (none when the room is absent)
Members(rt, room_id) ==
    IF room_id \in DOMAIN rt THEN DOMAIN rt[room_id] ELSE {}

\* C1: after any sequence of joins, leaves and messages every room in the
\* table has 1 or 2 members: never more than 2, and a room without members
\* is not in the table.
C1_RoomHasOneOrTwoMembers ==
    \A r \in DOMAIN rooms : Cardinality(DOMAIN rooms[r]) \in {1, 2}

\* the last member of a room has just left and the room is gone
C1_Witness ==
    /\ last.op = "leave" /\ last.reached /\ last.err = NoErr
    /\ Cardinality(Members(last.pre, last.room_id)) = 1
    /\ last.room_id \notin DOMAIN rooms

\* C2: a join on a room with exactly one member returns exactly the messages
\* buffered for that member, in the order they were enqueued (a buffered
\* message is appended at the end of the buffer), and leaves that member's
\* buffer empty.
C2_JoinDrainsBuffer ==
    /\ (/\ last.op = "join" /\ last.reached
        /\ Cardinality(Members(last.pre, last.room_id)) = 1
        /\ last.err = NoErr)
       => \A o \in Members(last.pre, last.room_id) :
             /\ last.messages = last.pre[last.room_id][o].msgs
             /\ last.replies[1].messages = last.pre[last.room_id][o].msgs
             /\ rooms[last.room_id][o].msgs = <<>>
    /\ (last.op = "message" /\ last.saved)
       => last.mid[last.room_id][last.client_id].msgs =
             Append(last.pre[last.room_id][last.client_id].msgs, last.body)

\* a second client has just joined a room whose first member had two
\* different messages buffered
C2_Witness ==
    /\ last.op = "join" /\ last.reached /\ last.err = NoErr
    /\ Cardinality(Members(last.pre, last.room_id)) = 1
    /\ Len(last.messages) = 2
    /\ last.messages[1] # last.messages[2]

\* C3: a message request from a member of a room with fewer than 2 members is
\* appended to a pending buffer and sendMessageToCollider is not called; with
\* 2 members the handler's store operation appends it to no buffer and
\* sendMessageToCollider is called.
C3_BufferOrForward ==
    (/\ last.op = "message" /\ last.reached
     /\ last.client_id \in Members(last.pre, last.room_id))
    => IF Cardinality(Members(last.pre, last.room_id)) < 2
       THEN /\ last.saved
            /\ last.mid =
                  (last.room_id :>
                      ((last.client_id :>
                           [last.pre[last.room_id][last.client_id]
                               EXCEPT !.msgs = Append(@, last.body)])
                       @@ last.pre[last.room_id])) @@ last.pre
            /\ rooms = last.mid
            /\ ~last.forwarded
       ELSE /\ ~last.saved
            /\ last.mid = last.pre
            /\ last.forwarded

\* a member of a two-member room has just sent a message
C3_Witness ==
    /\ last.op = "message" /\ last.reached
    /\ last.client_id \in Members(last.pre, last.room_id)
    /\ Cardinality(Members(last.pre, last.room_id)) = 2
    /\ last.forwarded

\* C4: a join on a room that has 2 members fails with ROOM_FULL whatever the
\* client identifier, and leaves membership, roles and buffers unchanged.
C4_FullRoomRejectsJoin ==
    (/\ last.op = "join" /\ last.reached
     /\ Cardinality(Members(last.pre, last.room_id)) = 2)
    => /\ last.err = RESPONSE_ROOM_FULL
       /\ last.replies = <<writeJoinResponse(RESPONSE_ROOM_FULL, FALSE, <<>>)>>
       /\ rooms = last.pre

\* a third identifier has just tried to join a room of two real clients, one
\* of which has a message pending
C4_Witness ==
    /\ last.op = "join" /\ last.reached
    /\ Cardinality(Members(last.pre, last.room_id)) = 2
    /\ last.client_id \notin Members(last.pre, last.room_id)
    /\ LOOPBACK_CLIENT_ID \notin Members(last.pre, last.room_id)
    /\ \E c \in Members(last.pre, last.room_id) :
          last.pre[last.room_id][c].msgs # <<>>

\* C5 as stated: a join with an identifier that is already a member of the
\* room fails with DUPLICATE_CLIENT, whether the room has 1 or 2 members.
C5_DuplicateAlwaysRejected ==
    (/\ last.op = "join" /\ last.reached
     /\ last.client_id \in Members(last.pre, last.room_id))
    => last.err = RESPONSE_DUPLICATE_CLIENT

\* C5 as amended: a join with an identifier that is already a member of the
\* room fails with DUPLICATE_CLIENT when the room has exactly one member, and
\* with ROOM_FULL when it has 2 members.
C5_DuplicateRejected ==
    (/\ last.op = "join" /\ last.reached
     /\ last.client_id \in Members(last.pre, last.room_id))
    => /\ last.err = IF Cardinality(Members(last.pre, last.room_id)) = 1
                     THEN RESPONSE_DUPLICATE_CLIENT ELSE RESPONSE_ROOM_FULL
       /\ last.replies = <<writeJoinResponse(last.err, FALSE, <<>>)>>

\* a member of a two-member room has just been used as the identifier of a
\* join
C5_Witness ==
    /\ last.op = "join" /\ last.reached
    /\ last.client_id \in Members(last.pre, last.room_id)
    /\ Cardinality(Members(last.pre, last.room_id)) = 2

\* C6 as stated: removing the initiator of a two-member room leaves the room
\* present with the remaining member an initiator; removing the last member
\* of a room deletes the room.
C6_RemovePromotesOrDeletes ==
    (last.op = "leave" /\ last.reached /\ last.err = NoErr)
    => /\ (/\ Cardinality(Members(last.pre, last.room_id)) = 2
           /\ last.pre[last.room_id][last.client_id].is_initiator)
          => /\ last.room_id \in DOMAIN rooms
             /\ \A c \in Members(last.pre, last.room_id) \ {last.client_id} :
                   /\ c \in DOMAIN rooms[last.room_id]
                   /\ rooms[last.room_id][c].is_initiator
       /\ Cardinality(Members(last.pre, last.room_id)) = 1
          => last.room_id \notin DOMAIN rooms

\* C6 as amended: removing the initiator of a two-member room whose other
\* member is not the loopback slot leaves the room present with exactly the
\* other member, an initiator; when the other member is the loopback slot it
\* is removed too and the room is deleted; removing the last member of a room
\* deletes the room.
C6_RemovePromotesRealOrDeletes ==
    (last.op = "leave" /\ last.reached /\ last.err = NoErr)
    => /\ (/\ Cardinality(Members(last.pre, last.room_id)) = 2
           /\ last.pre[last.room_id][last.client_id].is_initiator)
          => IF LOOPBACK_CLIENT_ID \in Members(last.pre, last.room_id)
             THEN last.room_id \notin DOMAIN rooms
             ELSE /\ last.room_id \in DOMAIN rooms
                  /\ DOMAIN rooms[last.room_id] =
                        Members(last.pre, last.room_id) \ {last.client_id}
                  /\ \A c \in DOMAIN rooms[last.room_id] :
                        rooms[last.room_id][c].is_initiator
       /\ Cardinality(Members(last.pre, last.room_id)) = 1
          => last.room_id \notin DOMAIN rooms

\* the initiator of a room of two real clients has just left
C6_Witness ==
    /\ last.op = "leave" /\ last.reached /\ last.err = NoErr
    /\ Cardinality(Members(last.pre, last.room_id)) = 2
    /\ LOOPBACK_CLIENT_ID \notin Members(last.pre, last.room_id)
    /\ last.pre[last.room_id][last.client_id].is_initiator
    /\ \E c \in DOMAIN last.pre[last.room_id] :
          ~last.pre[last.room_id][c].is_initiator

\* C9: a message request naming an unknown room, or an unknown client of an
\* existing room, is answered with UNKNOWN_ROOM or UNKNOWN_CLIENT, leaves the
\* store unchanged and is not handed to sendMessageToCollider.
C9_UnknownSenderRejected ==
    (/\ last.op = "message" /\ last.reached
     /\ last.client_id \notin Members(last.pre, last.room_id))
    => /\ last.replies =
             <<writeMessageResponse(
                 IF last.room_id \in DOMAIN last.pre
                 THEN RESPONSE_UNKNOWN_CLIENT ELSE RESPONSE_UNKNOWN_ROOM)>>
       /\ rooms = last.pre
       /\ ~last.forwarded

\* C10: every join or message request is answered with exactly one reply.
C10_OneReply ==
    last.op \in {"join", "message"} => Len(last.replies) = 1

\* ---------------------------------------------- claims on concurrent requests
\* the messages of the join response written by goroutine g
JoinMessages(g) ==
    IF goroutine[g].replies = <<>> THEN <<>>
    ELSE goroutine[g].replies[1].messages

\* what the handler of the request of G does when run alone on the store rt
SerialOutcomes(rt, G) ==
    IF G.op = "join"
    THEN {httpJoinHandler(rt, G.nparts, G.room_id, G.client_id,
                          G.is_loopback)}
    ELSE IF G.op = "leave"
    THEN {httpLeaveHandler(rt, G.nparts, G.room_id, G.client_id)}
    ELSE {httpMessageHandler(rt, G.nparts, G.room_id, G.client_id, G.body,
                             to, via) :
             to \in sendTargets(rt, G.room_id, G.client_id),
             via \in SendVias}

\* the requests of the goroutines in D, run one after the other in some order
\* on the store rt, give each goroutine the replies and the error it has and
\* leave the store the heap holds
RECURSIVE SerialFrom(_, _)
SerialFrom(rt, D) ==
    IF D = {} THEN rt = Deref(table, roomObjs, clientObjs)
    ELSE \E g \in D :
            \E h \in SerialOutcomes(rt, goroutine[g]) :
                /\ h.last.replies = goroutine[g].replies
                /\ h.last.err = goroutine[g].err
                /\ SerialFrom(h.rooms, D \ {g})

\* every request started has returned
Quiescent == \A g \in Goroutines : goroutine[g].pc \in {"idle", "done"}

\* C7: when two join requests run concurrently on the same one-member room,
\* no buffered message of that member is returned in both join responses.
C7_BufferReturnedOnce ==
    \A g \in Goroutines : \A h \in Goroutines \ {g} :
        (/\ goroutine[g].op = "join" /\ goroutine[g].pc = "done"
         /\ goroutine[h].op = "join" /\ goroutine[h].pc = "done"
         /\ goroutine[g].room_id = goroutine[h].room_id
         /\ Cardinality(Members(store0, goroutine[g].room_id)) = 1)
        => \A i \in DOMAIN JoinMessages(g) : \A j \in DOMAIN JoinMessages(h) :
               JoinMessages(g)[i] # JoinMessages(h)[j]

\* C8: once the concurrent join, leave and message handlers have returned,
\* their replies and the store equal those of some serial execution of the
\* same requests; in particular two concurrent joins on an empty room are
\* not both answered is_initiator = TRUE.
C8_Serializable ==
    Quiescent =>
        /\ SerialFrom(store0, {g \in Goroutines : goroutine[g].pc = "done"})
        /\ \A g \in Goroutines : \A h \in Goroutines \ {g} :
              (/\ goroutine[g].op = "join" /\ goroutine[h].op = "join"
               /\ goroutine[g].room_id = goroutine[h].room_id
               /\ Members(store0, goroutine[g].room_id) = {}
               /\ goroutine[g].replies # <<>> /\ goroutine[h].replies # <<>>)
              => ~(/\ goroutine[g].replies[1].is_initiator
                   /\ goroutine[h].replies[1].is_initiator)

\* ------------------------------------------------ claims on websocket sessions
\* the latest loop iteration handled a command that carried that cmd
Handled(cmd) == ws.handled /\ ws.frame.cmd = cmd

\* C11: once a session has received a command whose cmd is neither
\* "register" nor "send", no later command is processed on that connection.
C11_UnknownCmdTerminates ==
    [][Handled("bogus") => ws'.n = ws.n]_vars

\* the members of every room of the store rt
Membership(rt) == [r \in DOMAIN rt |-> DOMAIN rt[r]]

\* the deregister calls of the latest loop iteration
DeregisterCalls ==
    {i \in DOMAIN ws.calls : ws.calls[i].op = "deregister"}

\* C12: when a session that registered successfully terminates (close, read
\* error or protocol violation), deregister is called exactly once, with the
\* registered pair, the pair holds no live connection afterwards and the
\* members of every room are as they were.
C12_TerminationUnbinds ==
    (ws.state = "closed" /\ ws.prev.registered)
    => /\ Cardinality(DeregisterCalls) = 1
       /\ \A i \in DeregisterCalls :
              /\ ws.calls[i].rid = ws.prev.rid
              /\ ws.calls[i].cid = ws.prev.cid
       /\ <<ws.prev.rid, ws.prev.cid>> \in ws.preConn
       /\ <<ws.prev.rid, ws.prev.cid>> \notin conn
       /\ Membership(rooms) = Membership(ws.pre)

\* a registered session has just ended on a read error or a close
C12_Witness ==
    /\ ws.state = "closed" /\ ws.prev.registered /\ ~ws.handled
    /\ ws.prev.cid \in Members(rooms, ws.prev.rid)

\* the register calls of the latest loop iteration
RegisterCalls == {i \in DOMAIN ws.calls : ws.calls[i].op = "register"}

\* C13: a register command received on a session that is registered already
\* terminates the session without calling roomTable.register: the pair the
\* first registration bound is not replaced and the pair the second command
\* names is not bound.
C13_SecondRegisterRejected ==
    (Handled("register") /\ ws.prev.registered)
    => /\ ws.state = "closed"
       /\ RegisterCalls = {}
       /\ ws.rid = ws.prev.rid /\ ws.cid = ws.prev.cid
       /\ rooms = ws.pre
       /\ conn = ws.preConn \ {<<ws.prev.rid, ws.prev.cid>>}

\* a registered session has just received a register command that names
\* another client
C13_Witness ==
    /\ Handled("register") /\ ws.prev.registered
    /\ ws.msg.RoomID # "" /\ ws.msg.ClientID \notin {"", ws.prev.cid}

\* C14: a send command received before any successful register is rejected
\* and terminates the session, and no store operation is performed: nothing
\* is delivered or buffered, no room or client is created.
C14_SendBeforeRegisterRejected ==
    (Handled("send") /\ ~ws.prev.registered)
    => /\ ws.state = "closed"
       /\ ws.errors # <<>>
       /\ ws.calls = <<>>
       /\ rooms = ws.pre
       /\ conn = ws.preConn

\* a session that never registered has just received a send command that
\* carries a message
C14_Witness ==
    /\ Handled("send") /\ ~ws.prev.registered
    /\ ws.frame.msg \notin {"", Absent}

\* the send calls of the latest loop iteration
SendCalls == {i \in DOMAIN ws.calls : ws.calls[i].op = "send"}

\* C15: a send command that carries no message (msg empty or absent) fails
\* and terminates the session, and nothing is delivered or buffered,
\* whatever commands the session received before: a message of an earlier
\* command is not sent again.
C15_EmptySendRejected ==
    (Handled("send") /\ ws.frame.msg \in {"", Absent})
    => /\ ws.state = "closed"
       /\ ws.errors # <<>>
       /\ SendCalls = {}
       /\ rooms = ws.pre

\* C16: a register command in which roomid or clientid is missing fails and
\* terminates the session, and binds nothing, whatever commands the session
\* received before: the identifiers of an earlier command are not used.
C16_IncompleteRegisterRejected ==
    (/\ Handled("register")
     /\ \/ ws.frame.roomid \in {"", Absent}
        \/ ws.frame.clientid \in {"", Absent})
    => /\ ws.state = "closed"
       /\ ws.errors # <<>>
       /\ RegisterCalls = {}
       /\ conn \subseteq ws.preConn
       /\ rooms = ws.pre

\* ---------------------------------------------- further claims on HTTP requests
\* C17: when a message request from a member of a two-member room is handed
\* to sendMessageToCollider, the one reply is SUCCESS exactly when
\* roomTable.send returned no error; a failing call is answered with an
\* error reply.
C17_ForwardResultReported ==
    (/\ last.op = "message" /\ last.reached
     /\ last.client_id \in Members(last.pre, last.room_id)
     /\ Cardinality(Members(last.pre, last.room_id)) = 2)
    => /\ last.forwarded
       /\ Len(last.replies) = 1
       /\ (last.replies[1].result = RESPONSE_SUCCESS) <=> (last.sendErr = NoErr)
       /\ last.sendErr # NoErr =>
              last.replies[1] = httpError("Failed to send the message")

\* a member of a two-member room has just sent a message and roomTable.send
\* has failed
C17_Witness ==
    /\ last.op = "message" /\ last.reached /\ last.forwarded
    /\ last.client_id \in Members(last.pre, last.room_id)
    /\ Cardinality(Members(last.pre, last.room_id)) = 2
    /\ last.sendErr # NoErr

\* C18: removeClientFromRoom returns UNKNOWN_ROOM for a room identifier
\* absent from the table and UNKNOWN_CLIENT for a client identifier that is
\* not a member of an existing room, and leaves the room table as it was.
C18_RemoveUnknownRejected ==
    (/\ last.op = "leave" /\ last.reached
     /\ last.client_id \notin Members(last.pre, last.room_id))
    => /\ last.err = IF last.room_id \in DOMAIN last.pre
                     THEN RESPONSE_UNKNOWN_CLIENT
                     ELSE RESPONSE_UNKNOWN_ROOM
       /\ last.mid = last.pre
       /\ rooms = last.pre

\* a leave request has just named a client that is not a member of an
\* existing room
C18_Witness ==
    /\ last.op = "leave" /\ last.reached
    /\ last.room_id \in DOMAIN last.pre
    /\ last.client_id \notin Members(last.pre, last.room_id)
    /\ last.err = RESPONSE_UNKNOWN_CLIENT

\* the members of the room rm that hold the initiator role
Initiators(rm) == {c \in DOMAIN rm : rm[c].is_initiator}

\* C19: after any sequence of joins and leaves every room in the table has
\* exactly one member in the initiator role, the role of a member being the
\* is_initiator value its join returned, updated by the promotion in
\* removeClientFromRoom.
C19_OneInitiator ==
    /\ \A r \in DOMAIN rooms : Cardinality(Initiators(rooms[r])) = 1
    /\ (last.op = "join" /\ last.reached /\ last.err = NoErr)
       => /\ last.replies =
                 <<writeJoinResponse(RESPONSE_SUCCESS, last.is_initiator,
                                     last.messages)>>
          /\ last.is_initiator =
                 rooms[last.room_id][last.client_id].is_initiator

\* the non-initiator of a two-member room has just left a room whose
\* initiator had itself been promoted earlier
C19_Witness ==
    /\ last.op = "leave" /\ last.reached /\ last.err = NoErr
    /\ Cardinality(Members(last.pre, last.room_id)) = 2
    /\ LOOPBACK_CLIENT_ID \notin Members(last.pre, last.room_id)
    /\ ~last.pre[last.room_id][last.client_id].is_initiator
    /\ Cardinality(Members(rooms, last.room_id)) = 1
    /\ "00000001" \notin Members(last.pre, last.room_id)

\* C20: after any sequence of joins (with or without loopback) and leaves no
\* room in the table consists of the loopback slot alone: the slot is in a
\* room only next to a real client, and leaves the room with that client.
C20_NoLoopbackOnlyRoom ==
    /\ \A r \in DOMAIN rooms :
          LOOPBACK_CLIENT_ID \in DOMAIN rooms[r]
          => DOMAIN rooms[r] \cap RandomIds # {}
    /\ (/\ last.op = "leave" /\ last.reached /\ last.err = NoErr
        /\ last.client_id # LOOPBACK_CLIENT_ID)
       => LOOPBACK_CLIENT_ID \notin Members(rooms, last.room_id)

\* the client whose loopback join created a room has just left it
C20_Witness ==
    /\ last.op = "leave" /\ last.reached /\ last.err = NoErr
    /\ last.client_id # LOOPBACK_CLIENT_ID
    /\ LOOPBACK_CLIENT_ID \in Members(last.pre, last.room_id)
    /\ last.room_id \notin DOMAIN rooms

====
